---- MODULE Spec2Model ----
(***************************************************************************)
(* A model of app_7.py, the telemarketing dashboard: load_data, the        *)
(* cached multiselect_filter, the filter pipeline of main() and the        *)
(* target-proportion tables, with the Streamlit rerun of main() on every   *)
(* upload and every form submission.                                       *)
(*                                                                         *)
(* A DataFrame is a sequence of rows; a row is a record of the index label *)
(* and the ten columns the program reads.  A percentage is kept exact, as  *)
(* the pair num/den, since the model has no floating point.                *)
(***************************************************************************)
EXTENDS Integers, Sequences, FiniteSets, TLC

\* ---------------------------------------------------------------- bounds
MaxRows == 3          \* rows of a dataset in a single call or pipeline run
MaxNarrowed == 1      \* multiselects changed from ['all'] in a pipeline run
MaxSelected == 2      \* entries chosen in one changed multiselect of that run
MaxOrderRows == 2     \* rows of a dataset filtered in every column order
MaxOrderNarrowed == 2 \* multiselects changed from ['all'] in that exploration
MaxRuns == 3          \* reruns of main() in one session
MaxUploads == 1       \* files uploaded in one session
MaxUploadRows == 2    \* rows of an uploaded file
MaxEdits == 1         \* widgets the user changes between two submissions
MaxPicked == 1        \* entries chosen in one multiselect, where the history
                      \* of a session or every filter order is explored

\* ------------------------------------------------------------------ data
\* The eight categorical columns, in the order main() pipes them.
Columns == <<"job", "marital", "default", "housing", "loan", "contact",
             "month", "day_of_week">>

ColumnSet == {Columns[i] : i \in 1..Len(Columns)}

Row(age, job, marital, default, housing, loan, contact, month, dow, y) ==
    [age |-> age, job |-> job, marital |-> marital, default |-> default,
     housing |-> housing, loan |-> loan, contact |-> contact,
     month |-> month, day_of_week |-> dow, y |-> y]

\* The records input datasets are built from.  A dataset has at least one
\* row: the slider of lines 83-91 needs an age.
RowPool ==
    { Row(30, "admin", "married", "no", "yes", "no", "cellular", "may", "mon", "no"),
      Row(31, "technician", "single", "no", "no", "yes", "telephone", "jun", "tue", "yes"),
      Row(32, "admin", "single", "yes", "yes", "yes", "cellular", "jun", "mon", "yes") }

Datasets(n) == UNION { [1..k -> RowPool] : k \in 1..n }

\* A freshly parsed DataFrame: the rows with the default RangeIndex 0..n-1.
WithIndex(i, r) ==
    [index |-> i, age |-> r.age, job |-> r.job, marital |-> r.marital,
     default |-> r.default, housing |-> r.housing, loan |-> r.loan,
     contact |-> r.contact, month |-> r.month,
     day_of_week |-> r.day_of_week, y |-> r.y]

DataFrame(rows) == [i \in 1..Len(rows) |-> WithIndex(i - 1, rows[i])]

\* df[col]: one column as a sequence.
Series(df, col) == [i \in 1..Len(df) |-> df[i][col]]

\* Series.unique(), as a set.
unique(df, col) == {df[i][col] : i \in 1..Len(df)}

\* --------------------------------------------------- multiselect_filter
\* Series.isin(values): the boolean mask.
isin(series, values) == [i \in 1..Len(series) |-> series[i] \in values]

\* df[mask]: the rows whose mask entry is true, index labels kept.
RECURSIVE BoolIndex(_, _)
BoolIndex(df, mask) ==
    IF df = <<>> THEN <<>>
    ELSE IF Head(mask) THEN <<Head(df)>> \o BoolIndex(Tail(df), Tail(mask))
         ELSE BoolIndex(Tail(df), Tail(mask))

\* df.reset_index(drop=True): the index renumbered 0..n-1.
reset_index(df) == [i \in 1..Len(df) |-> [df[i] EXCEPT !.index = i - 1]]

\* Variant of line 27: selecionados == ['all'].
HasAllOnly(selecionados) == selecionados = {"all"}

\* 'all' in selecionados
HasAll(selecionados) == "all" \in selecionados

\* Variant: an empty selection treated as no filter.
multiselect_filter_EmptyAsAll(df, col, selecionados) ==
    IF HasAll(selecionados) \/ selecionados = {} THEN df
    ELSE reset_index(BoolIndex(df, isin(Series(df, col), selecionados)))

\* Variant of line 30: the mask negated.
multiselect_filter_NotIn(df, col, selecionados) ==
    IF HasAll(selecionados) THEN df
    ELSE reset_index(BoolIndex(df,
            [i \in 1..Len(df) |-> ~isin(Series(df, col), selecionados)[i]]))

\* Lines 26-30.
multiselect_filter(df, col, selecionados) ==
    IF HasAll(selecionados) THEN df
    ELSE reset_index(BoolIndex(df, isin(Series(df, col), selecionados)))

\* Variant of line 111: strict comparisons.
query_age_Exclusive(df, idades) ==
    BoolIndex(df, [i \in 1..Len(df) |->
                      df[i].age > idades[1] /\ df[i].age < idades[2]])

\* bank.query("age >= @idades[0] and age <= @idades[1]"): index labels kept.
query_age(df, idades) ==
    BoolIndex(df, [i \in 1..Len(df) |->
                      df[i].age >= idades[1] /\ df[i].age <= idades[2]])

\* Variant of line 115: housing filtered by loan's selection.
FilterStepsSwapped(selected) ==
    << <<"job", selected["job"]>>, <<"marital", selected["marital"]>>,
       <<"default", selected["default"]>>, <<"housing", selected["loan"]>>,
       <<"loan", selected["loan"]>>, <<"contact", selected["contact"]>>,
       <<"month", selected["month"]>>,
       <<"day_of_week", selected["day_of_week"]>> >>

\* main(), lines 112-119: the eight .pipe(multiselect_filter, col, selection)
\* calls, each column paired with its own widget's selection.
FilterSteps(selected) ==
    << <<"job", selected["job"]>>, <<"marital", selected["marital"]>>,
       <<"default", selected["default"]>>, <<"housing", selected["housing"]>>,
       <<"loan", selected["loan"]>>, <<"contact", selected["contact"]>>,
       <<"month", selected["month"]>>,
       <<"day_of_week", selected["day_of_week"]>> >>

RECURSIVE Pipe(_, _)
Pipe(df, steps) ==
    IF steps = <<>> THEN df
    ELSE Pipe(multiselect_filter(df, Head(steps)[1], Head(steps)[2]), Tail(steps))

\* The pipeline of lines 110-120 without the memoization.
Pipeline(df, idades, selected) ==
    Pipe(query_age(df, idades), FilterSteps(selected))

\* ------------------------------------------------------- st.cache_data
\* Variant: the DataFrame argument left out of the key.
CacheKeyNoData(df, col, selecionados) == <<col, selecionados>>

\* A cache is a set of [key, value] entries; st.cache_data keys an entry by
\* the hash of every argument, the DataFrame's content and index included.
CacheKey(df, col, selecionados) == <<df, col, selecionados>>

Hits(cache, key) == {e \in cache : e.key = key}

\* The decorated multiselect_filter: the stored value on a hit, else the
\* computed one, which is stored.
CachedFilter(cache, df, col, selecionados) ==
    LET key == CacheKey(df, col, selecionados)
    IN  IF Hits(cache, key) # {}
        THEN [value |-> (CHOOSE e \in Hits(cache, key) : TRUE).value,
              cache |-> cache]
        ELSE LET v == multiselect_filter(df, col, selecionados)
             IN  [value |-> v, cache |-> cache \cup {[key |-> key, value |-> v]}]

RECURSIVE CachedPipe(_, _, _)
CachedPipe(cache, df, steps) ==
    IF steps = <<>> THEN [value |-> df, cache |-> cache]
    ELSE LET r == CachedFilter(cache, df, Head(steps)[1], Head(steps)[2])
         IN  CachedPipe(r.cache, r.value, Tail(steps))

\* Lines 110-120 as main() runs them, through the cache.
CachedPipeline(cache, df, idades, selected) ==
    CachedPipe(cache, query_age(df, idades), FilterSteps(selected))

\* ------------------------------------------------------ proportion table
\* The lexicographic order of the target labels.
LabelOrder == <<"no", "yes">>

LabelRank(label) == CHOOSE i \in 1..Len(LabelOrder) : LabelOrder[i] = label

Count(series, v) == Cardinality({i \in 1..Len(series) : series[i] = v})

\* The distinct values in order of first appearance.
RECURSIVE FirstSeen(_)
FirstSeen(series) ==
    IF series = <<>> THEN <<>>
    ELSE <<Head(series)>> \o
         SelectSeq(FirstSeen(Tail(series)), LAMBDA v : v # Head(series))

\* A stable sort of [k, v] entries by ascending k.
RECURSIVE InsertSorted(_, _)
InsertSorted(sorted, x) ==
    IF sorted = <<>> THEN <<x>>
    ELSE IF Head(sorted).k <= x.k
         THEN <<Head(sorted)>> \o InsertSorted(Tail(sorted), x)
         ELSE <<x>> \o sorted

RECURSIVE StableSort(_)
StableSort(s) ==
    IF s = <<>> THEN <<>>
    ELSE InsertSorted(StableSort(SubSeq(s, 1, Len(s) - 1)), s[Len(s)])

Unkeyed(s) == [i \in 1..Len(s) |-> s[i].v]

\* Series.value_counts(normalize): one entry per distinct value, most frequent
\* first; the frequency is count/len when normalized, the count otherwise.
value_counts(series, normalize) ==
    LET seen == FirstSeen(series)
        entry(v) == [index |-> v,
                     y |-> [num |-> Count(series, v),
                            den |-> IF normalize THEN Len(series) ELSE 1]]
    IN  Unkeyed(StableSort([i \in 1..Len(seen) |->
                               [k |-> 0 - Count(series, seen[i]),
                                v |-> entry(seen[i])]]))

\* frame * 100
Times100(table) ==
    [i \in 1..Len(table) |-> [table[i] EXCEPT !.y.num = @ * 100]]

\* DataFrame.sort_index(): ascending by label.
sort_index(table) ==
    Unkeyed(StableSort([i \in 1..Len(table) |->
                           [k |-> LabelRank(table[i].index), v |-> table[i]]]))

\* Variant of line 141: value_counts() without normalize=True.
TargetPercCounts(df) ==
    sort_index(Times100(value_counts(Series(df, "y"), FALSE)))

\* df.y.value_counts(normalize=True).to_frame() * 100, then sort_index().
TargetPerc(df) ==
    sort_index(Times100(value_counts(Series(df, "y"), TRUE)))

\* ------------------------------------------------------------- load_data
\* An uploaded file: what it holds and the format it is written in.
NoFile == [kind |-> "none", rows |-> <<>>]

ParseError == [ok |-> FALSE, df |-> <<>>]

read_csv(file) ==
    IF file.kind = "csv" THEN [ok |-> TRUE, df |-> DataFrame(file.rows)]
    ELSE ParseError

read_excel(file) ==
    IF file.kind = "xlsx" THEN [ok |-> TRUE, df |-> DataFrame(file.rows)]
    ELSE ParseError

\* Variant: read_excel tried first, read_csv as the fallback.
load_data_ExcelFirst(file_data) ==
    IF read_excel(file_data).ok
    THEN [ok |-> TRUE, df |-> read_excel(file_data).df,
          attempts |-> <<"read_excel">>]
    ELSE [ok |-> read_csv(file_data).ok, df |-> read_csv(file_data).df,
          attempts |-> <<"read_excel", "read_csv">>]

\* try: read_csv(sep=';')  except Exception: read_excel.  attempts lists the
\* parsers called; ok = FALSE is read_excel's error leaving the function.
load_data(file_data) ==
    IF read_csv(file_data).ok
    THEN [ok |-> TRUE, df |-> read_csv(file_data).df,
          attempts |-> <<"read_csv">>]
    ELSE [ok |-> read_excel(file_data).ok, df |-> read_excel(file_data).df,
          attempts |-> <<"read_csv", "read_excel">>]

\* The decorated load_data: a stored DataFrame on a hit (no parser runs),
\* else the call; only a returned DataFrame is stored.
CachedLoad(cache, file_data) ==
    IF Hits(cache, file_data) # {}
    THEN [ok |-> TRUE, df |-> (CHOOSE e \in Hits(cache, file_data) : TRUE).value,
          attempts |-> <<>>, cache |-> cache]
    ELSE LET r == load_data(file_data)
         IN  [ok |-> r.ok, df |-> r.df, attempts |-> r.attempts,
              cache |-> IF r.ok
                        THEN cache \cup {[key |-> file_data, value |-> r.df]}
                        ELSE cache]

\* ------------------------------------------------------------ the widgets
\* add_all_option(lst): the observed values and the trailing 'all', as the set
\* of options a multiselect offers.
add_all_option(values) == values \cup {"all"}

Ages(df) == {df[i].age : i \in 1..Len(df)}

\* int(bank.age.min()), int(bank.age.max())
min_age(df) == CHOOSE a \in Ages(df) : \A b \in Ages(df) : a <= b

max_age(df) == CHOOSE a \in Ages(df) : \A b \in Ages(df) : a >= b

\* The values a multiselect is created with: ['all'].
DefaultSelected == [c \in ColumnSet |-> {"all"}]

\* The value the slider is created with: (min_age, max_age).
DefaultIdades(df) == <<min_age(df), max_age(df)>>

\* What the slider can return: lo <= hi within [min_age, max_age], step 1.
SliderValues(df) ==
    {r \in (min_age(df)..max_age(df)) \X (min_age(df)..max_age(df)) : r[1] <= r[2]}

\* What one multiselect can return when changed from its default.
NarrowChoices(df, col, m) ==
    {v \in SUBSET add_all_option(unique(df, col)) :
        Cardinality(v) <= m /\ v # {"all"}}

\* The selections of columns i..8, as a sequence, at most n of them changed.
RECURSIVE SelFrom(_, _, _, _)
SelFrom(df, i, n, m) ==
    IF i > Len(Columns) THEN {<<>>}
    ELSE {<<{"all"}>> \o rest : rest \in SelFrom(df, i + 1, n, m)}
         \cup (IF n = 0 THEN {}
               ELSE UNION {{<<v>> \o rest : rest \in SelFrom(df, i + 1, n - 1, m)} :
                              v \in NarrowChoices(df, Columns[i], m)})

ColumnPos(col) == CHOOSE i \in 1..Len(Columns) : Columns[i] = col

\* What the eight multiselects can return together, within the bounds.
Selections(df, n, m) ==
    {[c \in ColumnSet |-> q[ColumnPos(c)]] : q \in SelFrom(df, 1, n, m)}

\* What one multiselect can return: at most m of its options.
Choices(df, col, m) ==
    {v \in SUBSET add_all_option(unique(df, col)) : Cardinality(v) <= m}

\* The form after the user changes at most one widget of the form <<i, s>>.
OneEdit(df, i, s) ==
    {<<r, s>> : r \in SliderValues(df)}
        \cup UNION {{<<i, [s EXCEPT ![c] = v]>> : v \in Choices(df, c, MaxPicked)} :
                       c \in ColumnSet}

\* The form after the user changes at most n widgets.
RECURSIVE Edited(_, _, _, _)
Edited(df, i, s, n) ==
    IF n = 0 THEN {<<i, s>>}
    ELSE UNION {OneEdit(df, q[1], q[2]) : q \in Edited(df, i, s, n - 1)}

\* ----------------------------------------------------------------- state
VARIABLES
    data_file_1,           \* the uploaded file, NoFile before an upload
    loadCache,             \* st.cache_data of load_data
    filterCache,           \* st.cache_data of multiselect_filter
    idades,                \* the slider's value in the last run
    selected,              \* the eight multiselects' values in the last run
    bank_raw,              \* main()'s locals after the last run
    bank,
    bank_raw_target_perc,
    bank_target_perc,
    locals,                \* which of those locals the last run assigned
    shown,                 \* what the last run rendered
    error,                 \* the exception that ended the last run, or "none"
    attempts,              \* the parsers load_data called in the last run
    runs,                  \* reruns of main() so far
    uploads,               \* uploads so far
    lastOp,                \* what triggered the last step
    arg_df,                \* a single call of multiselect_filter:
    arg_col,               \*   its arguments,
    arg_selecionados,
    ret,                   \*   its return value,
    returned,              \*   and whether it has returned
    cur,                   \* the frame between two filters applied in any order
    remaining              \* the columns not yet filtered in that order

sessionVars == <<data_file_1, loadCache, filterCache, bank_raw_target_perc,
                 bank_target_perc, locals, shown, error, attempts, runs, uploads>>
inputVars == <<bank_raw, idades, selected>>
callVars == <<arg_df, arg_col, arg_selecionados, ret, returned>>
orderVars == <<cur, remaining>>
vars == <<sessionVars, inputVars, bank, lastOp, callVars, orderVars>>

InitSession ==
    /\ data_file_1 = NoFile
    /\ loadCache = {}
    /\ filterCache = {}
    /\ bank_raw_target_perc = <<>>
    /\ bank_target_perc = <<>>
    /\ locals = {}
    /\ shown = {}
    /\ error = "none"
    /\ attempts = <<>>
    /\ runs = 0
    /\ uploads = 0

InitInput ==
    /\ bank_raw = <<>>
    /\ idades = <<0, 0>>
    /\ selected = DefaultSelected

InitCall ==
    /\ arg_df = <<>>
    /\ arg_col = "job"
    /\ arg_selecionados = {"all"}
    /\ ret = <<>>
    /\ returned = FALSE

InitOrderVars ==
    /\ cur = <<>>
    /\ remaining = {}

\* ------------------------------------------------- the session: main()
\* The files a user can upload: a dataset as semicolon-delimited text or as a
\* workbook, or a file neither parser reads.
Files ==
    {[kind |-> k, rows |-> d] : k \in {"csv", "xlsx"}, d \in Datasets(MaxUploadRows)}
        \cup {[kind |-> "corrupt", rows |-> <<>>]}

\* What a run renders up to the proportion block (lines 76-131).
ShownBeforePerc == {"raw_head", "form", "filtered_head", "filtered_download"}

\* Lines 150-157: the raw proportion table and its download.
ShownRawPerc == {"raw_perc", "raw_perc_download"}

\* Lines 159-191: the filtered proportion table, its download and the charts.
ShownFilteredPerc == {"filtered_perc", "filtered_perc_download", "charts"}

\* One run of main() on `file`.  The widgets return their defaults when the
\* form is first created (fresh) and the submitted values otherwise.  `raises`
\* is the dataframe library raising inside the try block of lines 140-143,
\* at line 141, the statement that computes; lines 142-143 reorder and rename
\* its result.
Rerun(file, fresh, i, s, raises) ==
    LET ld == CachedLoad(loadCache, file)
    IN  /\ data_file_1' = file
        /\ loadCache' = ld.cache
        /\ attempts' = ld.attempts
        /\ runs' = runs + 1
        /\ IF ~ld.ok
           THEN \* line 73: read_excel's error leaves main()
                /\ error' = "ParseError"
                /\ locals' = {}
                /\ shown' = {}
                /\ bank_raw' = <<>>
                /\ bank' = <<>>
                /\ idades' = <<0, 0>>
                /\ selected' = DefaultSelected
                /\ bank_raw_target_perc' = <<>>
                /\ bank_target_perc' = <<>>
                /\ filterCache' = filterCache
           ELSE LET raw  == ld.df
                    ida  == IF fresh THEN DefaultIdades(raw) ELSE i
                    sel  == IF fresh THEN DefaultSelected ELSE s
                    p    == CachedPipeline(filterCache, raw, ida, sel)
                IN  /\ bank_raw' = raw
                    /\ idades' = ida
                    /\ selected' = sel
                    /\ bank' = p.value
                    /\ filterCache' = p.cache
                    /\ bank_raw_target_perc' = TargetPerc(raw)
                    /\ IF raises
                       THEN \* line 145, then line 159 reads the local that
                            \* line 141 never assigned
                            /\ bank_target_perc' = <<>>
                            /\ locals' = {"bank_raw", "bank", "bank_raw_target_perc"}
                            /\ shown' = ShownBeforePerc \cup {"st_error"}
                                            \cup ShownRawPerc
                            /\ error' = "UnboundLocalError"
                       ELSE /\ bank_target_perc' = TargetPerc(p.value)
                            /\ locals' = {"bank_raw", "bank", "bank_raw_target_perc",
                                          "bank_target_perc"}
                            /\ shown' = ShownBeforePerc \cup ShownRawPerc
                                            \cup ShownFilteredPerc
                            /\ error' = "none"

\* The user uploads a file: main() reruns and creates the form.
Upload(file, raises) ==
    /\ uploads < MaxUploads
    /\ runs < MaxRuns
    /\ uploads' = uploads + 1
    /\ lastOp' = "upload"
    /\ Rerun(file, TRUE, <<0, 0>>, DefaultSelected, raises)
    /\ UNCHANGED <<callVars, orderVars>>

\* The user presses 'Aplicar': main() reruns with the form's values.
Submit(i, s, raises) ==
    /\ data_file_1 # NoFile
    /\ "form" \in shown
    /\ runs < MaxRuns
    /\ lastOp' = "submit"
    /\ Rerun(data_file_1, FALSE, i, s, raises)
    /\ UNCHANGED <<uploads, callVars, orderVars>>

Init ==
    /\ InitSession /\ InitInput /\ InitCall /\ InitOrderVars
    /\ bank = <<>>
    /\ lastOp = "none"

UploadFile == \E file \in Files, raises \in BOOLEAN : Upload(file, raises)

Aplicar ==
    /\ "form" \in shown
    /\ runs < MaxRuns
    /\ \E w \in Edited(bank_raw, idades, selected, MaxEdits),
          raises \in BOOLEAN : Submit(w[1], w[2], raises)

Next == UploadFile \/ Aplicar

Spec == Init /\ [][Next]_vars


\* ------------------------------------- one call of multiselect_filter
\* The values the pool holds in a column.
PoolValues(col) == {r[col] : r \in RowPool}

PoolAges == {r.age : r \in RowPool}

PoolRanges == {r \in PoolAges \X PoolAges : r[1] <= r[2]}

\* The frames the function is called on: a parsed dataset, or what an age
\* query leaves of one (its index labels then have gaps; it may be empty).
Frames ==
    {DataFrame(d) : d \in Datasets(MaxRows)}
        \cup {query_age(DataFrame(d), r) : d \in Datasets(MaxRows), r \in PoolRanges}

InitFilter ==
    /\ InitSession /\ InitInput /\ InitOrderVars
    /\ bank = <<>>
    /\ lastOp = "none"
    /\ arg_df \in Frames
    /\ arg_col \in ColumnSet
    /\ arg_selecionados \in SUBSET add_all_option(PoolValues(arg_col))
    /\ ret = <<>>
    /\ returned = FALSE

CallFilter ==
    /\ ~returned
    /\ ret' = multiselect_filter(arg_df, arg_col, arg_selecionados)
    /\ returned' = TRUE
    /\ UNCHANGED <<sessionVars, inputVars, bank, lastOp, arg_df, arg_col,
                   arg_selecionados, orderVars>>

SpecFilter == InitFilter /\ [][CallFilter]_vars

\* ------------------------------------------- one run of the pipeline
\* A loaded dataset and the form's values: any slider range, and any
\* selections with at most n multiselects changed to at most m entries.
InitForm(rows, n, m) ==
    /\ bank_raw \in {DataFrame(d) : d \in Datasets(rows)}
    /\ idades \in SliderValues(bank_raw)
    /\ selected \in Selections(bank_raw, n, m)

InitPipeline ==
    /\ InitSession /\ InitCall /\ InitOrderVars
    /\ InitForm(MaxRows, MaxNarrowed, MaxSelected)
    /\ bank = bank_raw
    /\ lastOp = "none"

\* Lines 110-120 and 136-143, when nothing raises.
ApplyFilters ==
    /\ lastOp = "none"
    /\ bank' = Pipeline(bank, idades, selected)
    /\ bank_raw_target_perc' = TargetPerc(bank_raw)
    /\ bank_target_perc' = TargetPerc(bank')
    /\ lastOp' = "filtered"
    /\ UNCHANGED <<data_file_1, loadCache, filterCache, locals, shown, error,
                   attempts, runs, uploads, inputVars, callVars, orderVars>>

SpecPipeline == InitPipeline /\ [][ApplyFilters]_vars

\* ------------------------------- the eight filters in any order
InitOrder ==
    /\ InitSession /\ InitCall
    /\ InitForm(MaxOrderRows, MaxOrderNarrowed, MaxPicked)
    /\ bank = bank_raw
    /\ lastOp = "none"
    /\ cur = bank_raw
    /\ remaining = ColumnSet

\* The age query, which comes first in every order.
QueryAge ==
    /\ lastOp = "none"
    /\ cur' = query_age(cur, idades)
    /\ lastOp' = "queried"
    /\ UNCHANGED <<sessionVars, inputVars, bank, callVars, remaining>>

\* The filter of any column not yet applied, with that column's selection.
FilterColumn(c) ==
    /\ lastOp = "queried"
    /\ c \in remaining
    /\ cur' = multiselect_filter(cur, c, selected[c])
    /\ remaining' = remaining \ {c}
    /\ UNCHANGED <<sessionVars, inputVars, bank, lastOp, callVars>>

NextOrder == QueryAge \/ \E c \in ColumnSet : FilterColumn(c)

SpecOrder == InitOrder /\ [][NextOrder]_vars


\* ================================================================ claims
\* The row content of a DataFrame, without the index labels.
Values(df) ==
    [i \in 1..Len(df) |->
        Row(df[i].age, df[i].job, df[i].marital, df[i].default, df[i].housing,
            df[i].loan, df[i].contact, df[i].month, df[i].day_of_week, df[i].y)]

IndexOf(df) == [i \in 1..Len(df) |-> df[i].index]

\* A row passes a column's filter when the selection holds 'all' or its value.
Passes(r, col, v) == "all" \in v \/ r[col] \in v

\* sub is seq with some entries left out, the rest in seq's order.
RECURSIVE Embeds(_, _)
Embeds(sub, seq) ==
    IF sub = <<>> THEN TRUE
    ELSE IF seq = <<>> THEN FALSE
    ELSE IF Head(sub) = Head(seq) THEN Embeds(Tail(sub), Tail(seq))
    ELSE Embeds(sub, Tail(seq))

\* The index 0, 1, ..., n-1.
RangeIndex(n) == [i \in 1..n |-> i - 1]

\* The members of the selection among the rows of the call's input, in order.
MembersOfCall ==
    SelectSeq(Values(arg_df), LAMBDA r : r[arg_col] \in arg_selecionados)

\* C1: for a selection without 'all', multiselect_filter returns exactly the
\* input rows whose value in the column is in the selection, in input order;
\* the empty selection gives zero rows.
C1_MembersInOrder ==
    (returned /\ "all" \notin arg_selecionados) =>
        /\ Values(ret) = MembersOfCall
        /\ arg_selecionados = {} => ret = <<>>

\* The filter dropped some rows and kept several, for a non-empty selection.
C1_Witness ==
    /\ returned
    /\ "all" \notin arg_selecionados
    /\ arg_selecionados # {}
    /\ Len(ret) >= 2
    /\ Len(ret) < Len(arg_df)

\* C2: for a selection that holds 'all', alone or with other values,
\* multiselect_filter returns its input: the same rows with the same index.
C2_AllReturnsInput ==
    (returned /\ "all" \in arg_selecionados) => ret = arg_df

\* 'all' chosen together with a value some input row does not have, on a
\* frame whose index has a gap.
C2_Witness ==
    /\ returned
    /\ "all" \in arg_selecionados
    /\ arg_selecionados # {"all"}
    /\ \E i \in 1..Len(arg_df) : arg_df[i][arg_col] \notin arg_selecionados
    /\ IndexOf(arg_df) # RangeIndex(Len(arg_df))
    /\ Len(arg_df) >= 2

\* C3 as stated: unchanged when the selection equals {'all'}; for any other
\* selection only records whose value is in the selection are kept.
C3_AsStated ==
    returned =>
        /\ arg_selecionados = {"all"} => ret = arg_df
        /\ arg_selecionados # {"all"} =>
              \A i \in 1..Len(ret) : ret[i][arg_col] \in arg_selecionados

\* C3 amended: unchanged when the selection holds 'all'; for any selection
\* without 'all' the records kept are those whose value is in the selection,
\* all of them and no others.
C3_Amended ==
    returned =>
        /\ "all" \in arg_selecionados => ret = arg_df
        /\ "all" \notin arg_selecionados =>
              /\ \A i \in 1..Len(ret) : ret[i][arg_col] \in arg_selecionados
              /\ Len(ret) = Cardinality({i \in 1..Len(arg_df) :
                                arg_df[i][arg_col] \in arg_selecionados})
              /\ Embeds(Values(ret), Values(arg_df))

\* A selection of 'all' and one value returned a row with another value.
C3_Witness ==
    /\ returned
    /\ "all" \in arg_selecionados
    /\ Cardinality(arg_selecionados) = 2
    /\ \E i \in 1..Len(ret) : ret[i][arg_col] \notin arg_selecionados

\* The rows of the loaded dataset inside the slider's range that pass all
\* eight filters, in the dataset's order.
Survivors ==
    SelectSeq(Values(bank_raw),
              LAMBDA r : /\ idades[1] <= r.age
                         /\ r.age <= idades[2]
                         /\ \A c \in ColumnSet : Passes(r, c, selected[c]))

\* C4: the pipeline's result holds only records with lo <= age <= hi and holds
\* every record of the dataset in that range that passes the eight filters.
C4_AgeRangeInclusive ==
    lastOp = "filtered" =>
        /\ \A i \in 1..Len(bank) :
              idades[1] <= bank[i].age /\ bank[i].age <= idades[2]
        /\ Values(bank) = Survivors

\* Records at both ends of a proper range were kept, a record outside the
\* range was dropped, and a multiselect was narrowed.
C4_Witness ==
    /\ lastOp = "filtered"
    /\ idades[1] < idades[2]
    /\ \E i \in 1..Len(bank) : bank[i].age = idades[1]
    /\ \E i \in 1..Len(bank) : bank[i].age = idades[2]
    /\ \E i \in 1..Len(bank_raw) : bank_raw[i].age > idades[2]
    /\ \E c \in ColumnSet : "all" \notin selected[c]

\* C5: the filtered dataset keeps the surviving records in their input order
\* and its index is 0, 1, ..., n-1.
C5_IndexRenumbered ==
    lastOp = "filtered" =>
        /\ Embeds(Values(bank), Values(bank_raw))
        /\ IndexOf(bank) = RangeIndex(Len(bank))

\* C6: the eight filters applied in any order of the columns give the dataset
\* the pipeline's fixed order gives.
C6_OrderIrrelevant ==
    (lastOp = "queried" /\ remaining = {}) =>
        cur = Pipeline(bank_raw, idades, selected)

\* Every column was filtered, two of them with narrowed selections, and
\* some but not all records survived.
C6_Witness ==
    /\ lastOp = "queried"
    /\ remaining = {}
    /\ Cardinality({c \in ColumnSet : "all" \notin selected[c]}) >= 2
    /\ Len(cur) >= 1
    /\ Len(cur) < Len(bank_raw)

\* C7: a run whose filtered proportion computation raised shows the message
\* and goes on with the filtered proportions it had: the local still holds a
\* table, the filtered table, its download and the charts are rendered, and
\* no exception ends the run.
C7_RunContinues ==
    "st_error" \in shown =>
        /\ error = "none"
        /\ "bank_target_perc" \in locals
        /\ ShownFilteredPerc \subseteq shown

\* The sum of a table's percentages, as a fraction.
RECURSIVE SumPerc(_)
SumPerc(table) ==
    IF table = <<>> THEN [num |-> 0, den |-> 1]
    ELSE LET h == Head(table).y
             t == SumPerc(Tail(table))
         IN  [num |-> h.num * t.den + t.num * h.den, den |-> h.den * t.den]

\* table is the proportion table of the non-empty df.
IsProportionTable(df, table) ==
    /\ {table[i].index : i \in 1..Len(table)} = unique(df, "y")
    /\ Len(table) = Cardinality(unique(df, "y"))
    /\ \A i \in 1..Len(table) :
          /\ table[i].y.den > 0
          /\ table[i].y.num * Len(df)
                = 100 * Count(Series(df, "y"), table[i].index) * table[i].y.den
          /\ 0 <= table[i].y.num
          /\ table[i].y.num <= 100 * table[i].y.den
    /\ SumPerc(table).num = 100 * SumPerc(table).den
    /\ \A i, j \in 1..Len(table) :
          i < j => LabelRank(table[i].index) < LabelRank(table[j].index)

\* C8: for a non-empty dataset, raw or filtered, the proportion table maps
\* each target value to 100 * count / rows, each within [0, 100], summing to
\* 100, sorted by target value ascending.
C8_ProportionTable ==
    lastOp = "filtered" =>
        /\ IsProportionTable(bank_raw, bank_raw_target_perc)
        /\ bank # <<>> => IsProportionTable(bank, bank_target_perc)

\* 'yes' is the more frequent target of the raw dataset and comes second in
\* its table; the filtered dataset is smaller and holds both targets.
C8_Witness ==
    /\ lastOp = "filtered"
    /\ Count(Series(bank_raw, "y"), "yes") > Count(Series(bank_raw, "y"), "no")
    /\ Len(bank_raw_target_perc) = 2
    /\ bank_raw_target_perc[2].index = "yes"
    /\ Len(bank) < Len(bank_raw)
    /\ Len(bank_target_perc) = 2

\* C9: load_data calls read_csv first and returns its result; only when that
\* raises it calls read_excel and returns its result; when both raise, the
\* error leaves load_data and the run produces no dataset.
C9_CsvThenExcel ==
    attempts # <<>> =>
        IF read_csv(data_file_1).ok
        THEN /\ attempts = <<"read_csv">>
             /\ bank_raw = read_csv(data_file_1).df
             /\ error # "ParseError"
        ELSE /\ attempts = <<"read_csv", "read_excel">>
             /\ IF read_excel(data_file_1).ok
                THEN /\ bank_raw = read_excel(data_file_1).df
                     /\ error # "ParseError"
                ELSE /\ error = "ParseError"
                     /\ locals = {}
                     /\ bank_raw = <<>>

\* read_csv raised and read_excel returned the dataset.
C9_Witness ==
    /\ attempts = <<"read_csv", "read_excel">>
    /\ bank_raw # <<>>
    /\ "bank_raw" \in locals

\* C10: after every submission the filtered dataset is the pipeline applied
\* to the whole loaded dataset with that submission's selection alone, and
\* the raw dataset and the raw proportion table are what they were before it.
C10_NoAccumulation ==
    [][lastOp' = "submit" =>
          /\ bank' = Pipeline(DataFrame(data_file_1'.rows), idades', selected')
          /\ bank_raw' = DataFrame(data_file_1'.rows)
          /\ bank_raw' = bank_raw
          /\ bank_raw_target_perc' = bank_raw_target_perc]_vars

\* A second submission returned the whole dataset after an earlier one had
\* narrowed it.
C10_Witness ==
    /\ lastOp = "submit"
    /\ runs >= 3
    /\ bank = bank_raw
    /\ Len(bank) >= 2
    /\ \E e \in filterCache : Len(e.value) < Len(bank_raw) /\ e.value # <<>>

====
